---- MODULE Spec2Model ----
(***************************************************************************)
(* Anubis-Bot: launch ingestion (pump_monitor.py, database.py,             *)
(* modules/wallet_scanner.py), scan scheduling (run.py, anubis_bot.py) and *)
(* the scoring / alerting pipeline (modules/anubis_scoring.py).            *)
(*                                                                         *)
(* The module holds several specifications over one set of variables; a    *)
(* specification leaves the variables of the other components at their     *)
(* initial value.                                                          *)
(*   SpecScore   one scoring pass as a function of what it read            *)
(*   Spec        PumpFunMonitor workers polling and ingesting launches     *)
(*   SpecAlert   AnubisAlertSystem.process_new_launch passes               *)
(*   SpecHistory WalletScanner.run_historical_scan: store and profiles     *)
(*   SpecWallet  one scoring pass from the rows of one wallet              *)
(*   SpecScan    WalletScanner.scan_pump_historical and developer profiles *)
(*   SpecPoll    one PumpFunMonitor loop: polls, stop and restart          *)
(*   SpecPollLive the polling loop under fair scheduling                   *)
(*   SpecSched   AnubisBot._check_and_run_historical_scan invocations      *)
(*   SpecPages   run_historical_scan paging through signatures             *)
(*   SpecRetry   the metadata retry queue                                  *)
(*   SpecIngest  sequences of historical scans and realtime ingestions     *)
(*   SpecPaths   a launch transaction on each ingestion path               *)
(*                                                                         *)
(* Scores are Python floats in the source; here they are exact rationals   *)
(* <<numerator, denominator>> in lowest terms with a positive denominator. *)
(* Where a class defines a method twice, Python binds the later            *)
(* definition; the scoring pass is modelled by its data flow through the   *)
(* bound definitions.                                                      *)
(***************************************************************************)
EXTENDS Integers, Sequences, FiniteSets, TLC

\* Python's None for an optional number; an absent row or empty dictionary is a
\* record with present = FALSE.
None == <<>>
Absent == [present |-> FALSE]

(***************************************************************************)
(* Exact rational arithmetic.                                              *)
(***************************************************************************)
RECURSIVE GCD(_, _)
GCD(a, b) == IF b = 0 THEN a ELSE GCD(b, a % b)

Abs(x) == IF x < 0 THEN -x ELSE x

Norm(n, d) ==
    LET g == GCD(Abs(n), Abs(d))
        s == IF d < 0 THEN -1 ELSE 1
    IN  <<(s * n) \div g, (s * d) \div g>>

R(n) == <<n, 1>>
Frac(n, d) == Norm(n, d)
RAdd(x, y) == Norm(x[1] * y[2] + y[1] * x[2], x[2] * y[2])
RSub(x, y) == Norm(x[1] * y[2] - y[1] * x[2], x[2] * y[2])
RMul(x, y) == Norm(x[1] * y[1], x[2] * y[2])
RDiv(x, y) == Norm(x[1] * y[2], x[2] * y[1])
RLt(x, y) == x[1] * y[2] < y[1] * x[2]
RGt(x, y) == RLt(y, x)
RLe(x, y) == ~RLt(y, x)
RMin(x, y) == IF RLt(y, x) THEN y ELSE x
RMax(x, y) == IF RLt(x, y) THEN y ELSE x
\* Python truthiness of an optional number: None and 0 are false.
Truthy(x) == x # None /\ x[1] # 0

(***************************************************************************)
(* AnubisWeights (the fields the composite uses).                          *)
(***************************************************************************)
W_success_rate == Frac(15, 100)
W_rug_rate == Frac(15, 100)
W_time_consistency == Frac(10, 100)
W_velocity_pattern == Frac(10, 100)
W_network_connections == Frac(5, 100)
W_momentum_score == Frac(5, 100)

(***************************************************************************)
(* AnubisScoringEngine: component scores.                                  *)
(* A profile is Absent (no row) or a record                                *)
(*   [present, total_launches, successful_launches, total_rugs : Nat,      *)
(*    success_rate_7d : rational, avg_seed_amount : None or rational].     *)
(***************************************************************************)
\* _calculate_success_score with the bonus left uncapped.
calculate_success_score_uncapped(profile) ==
    IF ~profile.present \/ profile.total_launches = 0 THEN R(0)
    ELSE
      LET success_rate == Frac(profile.successful_launches, profile.total_launches)
          recent_weight == IF RGt(profile.success_rate_7d, R(0))
                           THEN Frac(6, 10) ELSE Frac(3, 10)
          historical_weight == RSub(R(1), recent_weight)
          score == RMul(RAdd(RMul(success_rate, historical_weight),
                             RMul(profile.success_rate_7d, recent_weight)),
                        R(100))
      IN  IF profile.successful_launches > 5 /\ RGt(success_rate, Frac(3, 10))
          THEN RMul(score, Frac(12, 10))
          ELSE score

calculate_success_score(profile) ==
    IF ~profile.present \/ profile.total_launches = 0 THEN R(0)
    ELSE
      LET success_rate == Frac(profile.successful_launches, profile.total_launches)
          recent_weight == IF RGt(profile.success_rate_7d, R(0))
                           THEN Frac(6, 10) ELSE Frac(3, 10)
          historical_weight == RSub(R(1), recent_weight)
          score == RMul(RAdd(RMul(success_rate, historical_weight),
                             RMul(profile.success_rate_7d, recent_weight)),
                        R(100))
      IN  IF profile.successful_launches > 5 /\ RGt(success_rate, Frac(3, 10))
          THEN RMin(RMul(score, Frac(12, 10)), R(100))
          ELSE score

\* calculate_scam_score with the rug term taken from the launches that were
\* not rugged.
calculate_scam_score_rug_inverted(profile, velocity) ==
    IF ~profile.present THEN R(50)
    ELSE
      LET rug == IF profile.total_launches > 0
                 THEN RMul(Frac(profile.total_launches - profile.total_rugs,
                                profile.total_launches), R(40))
                 ELSE R(0)
          spam == IF velocity.velocity_type = "serial_spammer" THEN R(30) ELSE R(0)
          fast == IF Truthy(velocity.min_interval) /\ RLt(velocity.min_interval, R(10))
                  THEN R(20) ELSE R(0)
          seed == IF Truthy(profile.avg_seed_amount) /\ RLt(profile.avg_seed_amount, R(1))
                  THEN R(10) ELSE R(0)
      IN  RMin(RAdd(RAdd(rug, spam), RAdd(fast, seed)), R(100))

\* The definition bound in the class (the second one, of two parameters).
calculate_scam_score(profile, velocity) ==
    IF ~profile.present THEN R(50)
    ELSE
      LET rug == IF profile.total_launches > 0
                 THEN RMul(Frac(profile.total_rugs, profile.total_launches), R(40))
                 ELSE R(0)
          spam == IF velocity.velocity_type = "serial_spammer" THEN R(30) ELSE R(0)
          fast == IF Truthy(velocity.min_interval) /\ RLt(velocity.min_interval, R(10))
                  THEN R(20) ELSE R(0)
          seed == IF Truthy(profile.avg_seed_amount) /\ RLt(profile.avg_seed_amount, R(1))
                  THEN R(10) ELSE R(0)
      IN  RMin(RAdd(RAdd(rug, spam), RAdd(fast, seed)), R(100))

\* patterns is Absent (no rows) or [consistency, asia_ratio, eu_ratio, us_ratio,
\* weekend_ratio : rational].
calculate_time_pattern_score(patterns) ==
    IF ~patterns.present THEN R(50)
    ELSE
      LET a == IF RGt(patterns.consistency, Frac(7, 10)) THEN 20 ELSE 0
          b == IF RGt(patterns.asia_ratio, Frac(6, 10)) \/ RGt(patterns.us_ratio, Frac(6, 10))
               THEN 15 ELSE 0
          c == IF RGt(patterns.weekend_ratio, Frac(6, 10)) THEN 10 ELSE 0
      IN  RMax(R(0), RMin(R(50 + a + b - c), R(100)))

calculate_velocity_score(velocity) ==
    CASE velocity.velocity_type = "serial_spammer" -> R(10)
      [] velocity.velocity_type = "high_frequency" -> R(30)
      [] velocity.velocity_type = "moderate" -> R(70)
      [] velocity.velocity_type = "selective" -> R(90)
      [] OTHER -> R(50)

\* network is [network_size : Nat, sybil_score : rational, farming_suspected : BOOLEAN].
calculate_network_score(network) ==
    IF network.farming_suspected THEN R(20)
    ELSE
      LET size == IF network.network_size < 3 THEN 20
                  ELSE IF network.network_size > 10 THEN -30 ELSE 0
      IN  RMax(R(0), RMin(RSub(R(70 + size), RMul(network.sybil_score, R(50))), R(100)))

\* recent is [launches_7d, successes_7d : Nat].
calculate_momentum_score(recent) ==
    IF recent.launches_7d = 0 THEN R(0)
    ELSE
      LET recent_success == Frac(recent.successes_7d, recent.launches_7d)
          activity_score == IF recent.launches_7d > 10 THEN 30
                            ELSE IF recent.launches_7d > 3 THEN 50 ELSE 70
      IN  RAdd(RMul(recent_success, R(70)), RMul(R(activity_score), Frac(3, 10)))

\* liquidity is Absent (empty dict) or [bot_likelihood : rational].
calculate_liquidity_score(liquidity) ==
    IF ~liquidity.present THEN R(50)
    ELSE IF RLt(liquidity.bot_likelihood, Frac(3, 10)) THEN R(80)
    ELSE IF RLt(liquidity.bot_likelihood, Frac(5, 10)) THEN R(60)
    ELSE IF RLt(liquidity.bot_likelihood, Frac(7, 10)) THEN R(40)
    ELSE R(20)

\* bonding is Absent (empty dict) or [avg_bond_time, graduation_rate : rational].
calculate_bonding_score(bonding) ==
    IF ~bonding.present \/ ~Truthy(bonding.avg_bond_time) THEN R(50)
    ELSE
      LET base == RAdd(R(50), RMul(bonding.graduation_rate, R(30)))
          t == bonding.avg_bond_time
          score == IF RLt(R(30), t) /\ RLt(t, R(180)) THEN RAdd(base, R(20))
                   ELSE IF RLt(t, R(10)) THEN RSub(base, R(20))
                   ELSE base
      IN  RMax(R(0), RMin(score, R(100)))

\* soph is [sophisticated_trader, uses_jito : BOOLEAN, metadata_score : rational,
\* successful_graduations : Nat, migration_success_rate : rational]: the jito,
\* metadata and migrations dictionaries together.
calculate_sophistication_score(soph) ==
    LET j == IF soph.sophisticated_trader THEN 30
             ELSE IF soph.uses_jito THEN 15 ELSE 0
        m == RMul(soph.metadata_score, Frac(4, 10))
        g == IF soph.successful_graduations > 0
             THEN (IF RGt(soph.migration_success_rate, Frac(5, 10)) THEN 30 ELSE 20)
             ELSE 0
    IN  RMin(RAdd(R(j + g), m), R(100))

calculate_composite_score(scores) ==
    LET composite ==
          RAdd(RAdd(RAdd(RMul(scores.success_score, W_success_rate),
                         RMul(RSub(R(100), scores.scam_score), W_rug_rate)),
                    RAdd(RMul(scores.time_pattern_score, W_time_consistency),
                         RMul(scores.velocity_score, W_velocity_pattern))),
               RAdd(RMul(scores.network_score, W_network_connections),
                    RMul(scores.momentum_score, W_momentum_score)))
        total_weight ==
          RAdd(RAdd(RAdd(W_success_rate, W_rug_rate),
                    RAdd(W_time_consistency, W_velocity_pattern)),
               RAdd(W_network_connections, W_momentum_score))
    IN  IF RGt(total_weight, R(0)) THEN RDiv(composite, total_weight) ELSE R(50)

determine_risk_rating(anubis_score, scam_score) ==
    IF RGt(scam_score, R(75)) \/ RLt(anubis_score, R(25)) THEN "EXTREME"
    ELSE IF RGt(scam_score, R(50)) \/ RLt(anubis_score, R(40)) THEN "HIGH"
    ELSE IF RGt(scam_score, R(30)) \/ RLt(anubis_score, R(60)) THEN "MEDIUM"
    ELSE "LOW"

\* determine_developer_tier with the ELITE threshold at the PRO threshold.
determine_developer_tier_elite_above_60(anubis_score, profile) ==
    IF RGt(anubis_score, R(60)) /\ profile.successful_launches > 5 THEN "ELITE"
    ELSE IF RGt(anubis_score, R(60)) THEN "PRO"
    ELSE IF RGt(anubis_score, R(40)) THEN "AMATEUR"
    ELSE "SCAMMER"

\* The definition bound in the class (the second one, of two parameters).
determine_developer_tier(anubis_score, profile) ==
    IF RGt(anubis_score, R(80)) /\ profile.successful_launches > 5 THEN "ELITE"
    ELSE IF RGt(anubis_score, R(60)) THEN "PRO"
    ELSE IF RGt(anubis_score, R(40)) THEN "AMATEUR"
    ELSE "SCAMMER"

calculate_alert_priority(anubis_score, scores) ==
    IF RGt(anubis_score, R(75))
    THEN (IF RGt(scores.momentum_score, R(70)) THEN 1 ELSE 2)
    ELSE IF RGt(scores.scam_score, R(70)) THEN 9
    ELSE IF RLt(R(40), anubis_score) /\ RLt(anubis_score, R(60)) THEN 5
    ELSE 7


(***************************************************************************)
(* AnubisScoringEngine.calculate_anubis_score as a function of what its    *)
(* reads returned.  read is [profile, time_patterns, velocity, network,    *)
(* recent_performance, liquidity, bonding, soph].                          *)
(***************************************************************************)
component_scores(read) ==
    [success_score |-> calculate_success_score(read.profile),
     scam_score |-> calculate_scam_score(read.profile, read.velocity),
     time_pattern_score |-> calculate_time_pattern_score(read.time_patterns),
     velocity_score |-> calculate_velocity_score(read.velocity),
     network_score |-> calculate_network_score(read.network),
     momentum_score |-> calculate_momentum_score(read.recent_performance),
     liquidity_score |-> calculate_liquidity_score(read.liquidity),
     bonding_score |-> calculate_bonding_score(read.bonding),
     sophistication_score |-> calculate_sophistication_score(read.soph)]

\* The tier is computed with profile.get(...): with no profile row the pass raises.
calculate_anubis_score(read) ==
    IF ~read.profile.present THEN [raised |-> TRUE]
    ELSE
      LET scores == component_scores(read)
          anubis_score == calculate_composite_score(scores)
      IN  [raised |-> FALSE,
           anubis_score |-> anubis_score,
           risk_rating |-> determine_risk_rating(anubis_score, scores.scam_score),
           developer_tier |-> determine_developer_tier(anubis_score, read.profile),
           component_scores |-> scores,
           alert_priority |-> calculate_alert_priority(anubis_score, scores)]

\* should_alert with the momentum test ahead of the tier test.
should_alert_momentum_first(scores) ==
    IF RGt(scores.component_scores.momentum_score, R(80))
       /\ RGt(scores.anubis_score, R(60)) THEN "HIGH"
    ELSE IF scores.developer_tier = "ELITE" THEN "CRITICAL"
    ELSE IF RGt(scores.anubis_score, R(70)) THEN "STANDARD"
    ELSE IF scores.risk_rating = "EXTREME" THEN "NONE"
    ELSE "NONE"

(***************************************************************************)
(* AnubisAlertSystem._should_alert: the level, or "NONE" for (False, None).*)
(***************************************************************************)
should_alert(scores) ==
    IF scores.developer_tier = "ELITE" THEN "CRITICAL"
    ELSE IF RGt(scores.component_scores.momentum_score, R(80))
            /\ RGt(scores.anubis_score, R(60)) THEN "HIGH"
    ELSE IF RGt(scores.anubis_score, R(70)) THEN "STANDARD"
    ELSE IF scores.risk_rating = "EXTREME" THEN "NONE"
    ELSE "NONE"

(***************************************************************************)
(* Inputs of a scoring pass.                                               *)
(***************************************************************************)
MaxLaunches == 6

LaunchTotals == {0, 1, MaxLaunches}
SevenDayRates == {R(0), R(1)}
SeedAmounts == {None, Frac(1, 2)}

ProfileRows ==
    {[present |-> TRUE, total_launches |-> t, successful_launches |-> c[1],
      total_rugs |-> c[2], success_rate_7d |-> q, avg_seed_amount |-> a] :
        t \in LaunchTotals, c \in (0..MaxLaunches) \X (0..MaxLaunches),
        q \in SevenDayRates, a \in SeedAmounts}

Profiles ==
    {Absent} \cup {p \in ProfileRows : p.successful_launches <= p.total_launches
                                       /\ p.total_rugs <= p.total_launches}

VelocityTypes == {"serial_spammer", "high_frequency", "moderate", "selective"}

\* Fewer than two launches: SELECTIVE and no interval; otherwise a type and
\* the minimum interval in minutes.
Velocities ==
    {[velocity_type |-> "selective", min_interval |-> None]}
    \cup {[velocity_type |-> v, min_interval |-> i] :
            v \in VelocityTypes, i \in {R(5), R(10)}}

TimePatterns ==
    {Absent,
     [present |-> TRUE, consistency |-> Frac(8, 10), asia_ratio |-> Frac(7, 10),
      eu_ratio |-> R(0), us_ratio |-> R(0), weekend_ratio |-> R(0)],
     [present |-> TRUE, consistency |-> R(0), asia_ratio |-> R(0),
      eu_ratio |-> Frac(7, 10), us_ratio |-> R(0), weekend_ratio |-> Frac(7, 10)]}

Networks ==
    {[network_size |-> 0, sybil_score |-> R(0), farming_suspected |-> FALSE],
     [network_size |-> 11, sybil_score |-> Frac(2, 10), farming_suspected |-> FALSE],
     [network_size |-> 4, sybil_score |-> Frac(8, 10), farming_suspected |-> TRUE]}

RecentPerformances ==
    {[launches_7d |-> 0, successes_7d |-> 0],
     [launches_7d |-> 1, successes_7d |-> 1],
     [launches_7d |-> 11, successes_7d |-> 0]}

PlainSoph ==
    [sophisticated_trader |-> FALSE, uses_jito |-> FALSE, metadata_score |-> R(0),
     successful_graduations |-> 0, migration_success_rate |-> R(0)]

\* What the liquidity, bonding, jito, metadata and migration analysers returned.
AuxReads ==
    {<<Absent, Absent, PlainSoph>>,
     <<[present |-> TRUE, bot_likelihood |-> Frac(8, 10)],
       [present |-> TRUE, avg_bond_time |-> R(60), min_bond_time |-> R(30), graduation_rate |-> R(1)],
       [sophisticated_trader |-> TRUE, uses_jito |-> TRUE, metadata_score |-> R(100),
        successful_graduations |-> 3, migration_success_rate |-> R(1)]>>,
     <<[present |-> TRUE, bot_likelihood |-> Frac(2, 10)],
       [present |-> TRUE, avg_bond_time |-> R(5), min_bond_time |-> R(0), graduation_rate |-> R(0)],
       [sophisticated_trader |-> FALSE, uses_jito |-> TRUE, metadata_score |-> R(50),
        successful_graduations |-> 0, migration_success_rate |-> R(0)]>>}

Reads ==
    {[profile |-> p, time_patterns |-> tp, velocity |-> v, network |-> n,
      recent_performance |-> rp, liquidity |-> a[1], bonding |-> a[2], soph |-> a[3]] :
        p \in Profiles, tp \in TimePatterns, v \in Velocities, n \in Networks,
        rp \in RecentPerformances, a \in AuxReads}

(***************************************************************************)
(* State.                                                                  *)
(***************************************************************************)
VARIABLES
    read,               \* SpecScore: what the scoring pass read
    snap,               \* SpecScore: the pass's result
    alert_level,        \* SpecScore: process_new_launch's alert_level, None until decided
    wallet_data,        \* SpecWallet: the rows the scoring queries find for the wallet
    chain,              \* the program's transactions, oldest first; a signature is an index
    token_launches,     \* database.py: rows of token_launches, keyed by mint_address
    developer_wallets,  \* database.py: rows of developer_wallets, keyed by wallet_address
    mon,                \* per PumpFunMonitor: its fields and its position in the loop
    failed,             \* <<monitor, signature>>: the monitor's last pass over it failed
    profiled,           \* <<wallet, mint>>: a profile write for this launch completed
    store,              \* SpecAlert: what the scoring queries return for the wallet now
    ingests,            \* SpecAlert: launches of the wallet ingested since the start
    al,                 \* SpecAlert: per alert pass, its position and locals
    alerts_log,         \* SpecAlert: rows of alerts_log, in insertion order
    anubis_token_launches, \* wallet_scanner.py: rows of anubis.token_launches, by mint_address
    wallet_profiles,    \* wallet_scanner.py: rows of anubis.wallet_profiles, by wallet_address
    hist                \* SpecHistory, SpecScan: the scanner's position and locals

scoreVars == <<read, snap, alert_level, wallet_data>>
monVars == <<chain, token_launches, developer_wallets, mon, failed, profiled>>
alertVars == <<store, ingests, al, alerts_log>>
histVars == <<anubis_token_launches, wallet_profiles, hist>>
vars == <<read, snap, alert_level, wallet_data, chain, token_launches, developer_wallets, mon, failed, profiled,
          store, ingests, al, alerts_log, anubis_token_launches, wallet_profiles, hist>>

NoSnap == [raised |-> FALSE, pending |-> TRUE]
NoRead == [profile |-> Absent]

ScoreIdle == read = NoRead /\ snap = NoSnap /\ alert_level = None /\ wallet_data = <<>>
AlertIdle == store = NoRead /\ ingests = 0 /\ al = <<>> /\ alerts_log = <<>>
HistoryIdle == anubis_token_launches = <<>> /\ wallet_profiles = <<>> /\ hist = <<>>
MonitorIdle ==
    /\ chain = <<>>
    /\ token_launches = {}
    /\ developer_wallets = {}
    /\ mon = <<>>
    /\ failed = {}
    /\ profiled = {}

(***************************************************************************)
(* SpecScore: one scoring pass.                                            *)
(***************************************************************************)
InitScore ==
    /\ read \in Reads
    /\ snap = NoSnap
    /\ alert_level = None
    /\ wallet_data = <<>>
    /\ MonitorIdle /\ AlertIdle /\ HistoryIdle

\* process_new_launch up to its decision: the scoring pass, then _should_alert
\* on its result; an exception of the pass leaves alert_level unset.
Score ==
    /\ read # NoRead
    /\ snap = NoSnap
    /\ snap' = calculate_anubis_score(read)
    /\ alert_level' = IF snap'.raised THEN None ELSE should_alert(snap')
    /\ UNCHANGED <<read, wallet_data, monVars, alertVars, histVars>>

NextScore == Score

SpecScore == InitScore /\ [][NextScore]_vars


(***************************************************************************)
(* Spec: PumpFunMonitor (pump_monitor.py) over Database (database.py).     *)
(*                                                                         *)
(* A transaction is [create, creator, mint]: whether its logs show a token *)
(* creation, its first signer, and the mint its instructions create.       *)
(* extract_launch_data leaves mint_address None (NoMint here); the model   *)
(* also lets the parsed transaction name its mint, which is what the       *)
(* "Extract from instructions" placeholder stands for.                     *)
(***************************************************************************)
Wallets == {"w1", "w2"}
Mints == {"m1", "m2"}
NoMint == "null"

NumMonitors == 2
PageLimit == 2
InitChain == 2
MaxFailures == 1

Monitors == 1..NumMonitors

TxKinds ==
    {[create |-> FALSE, creator |-> "w1", mint |-> NoMint]}
    \cup {[create |-> TRUE, creator |-> w, mint |-> m] :
            w \in Wallets, m \in Mints \cup {NoMint}}

\* last_signature is 0 for None.
\* get_signatures_for_address(limit, before): the newest `limit` signatures
\* older than `before`, newest first.
RECURSIVE Descending(_, _)
Descending(hi, n) ==
    IF n = 0 \/ hi < 1 THEN <<>> ELSE <<hi>> \o Descending(hi - 1, n - 1)

get_signatures_for_address(before) ==
    Descending((IF before = 0 THEN Len(chain) ELSE before - 1), PageLimit)

RECURSIVE reversed(_)
reversed(q) == IF q = <<>> THEN <<>> ELSE reversed(Tail(q)) \o <<Head(q)>>

NoLaunch == [creator_wallet |-> "null", mint_address |-> NoMint]

IdleMonitor ==
    [monitoring |-> TRUE, last_signature |-> 0, pc |-> "idle", queue |-> <<>>,
     newest |-> 0, launch_data |-> NoLaunch, developer |-> Absent]

\* A mint is created by one transaction only.
MintsCreatedOnce(c) ==
    \A i, j \in DOMAIN c :
        (i # j /\ c[i].create /\ c[j].create /\ c[i].mint # NoMint) => c[i].mint # c[j].mint

InitMonitor ==
    /\ chain \in {c \in [1..InitChain -> TxKinds] : MintsCreatedOnce(c)}
    /\ token_launches = {}
    /\ developer_wallets = [w \in Wallets |-> Absent]
    /\ mon = [m \in Monitors |-> IdleMonitor]
    /\ failed = {}
    /\ profiled = {}

CanFail == Cardinality(failed) < MaxFailures

\* The rest of process_new_launch and the loop's step to the next signature.
Continue(m, ok) ==
    /\ mon' = [mon EXCEPT ![m].pc = "loop", ![m].queue = Tail(@),
                          ![m].launch_data = NoLaunch, ![m].developer = Absent]
    /\ failed' = IF ok THEN failed \ {<<m, Head(mon[m].queue)>>}
                       ELSE failed \cup {<<m, Head(mon[m].queue)>>}

\* check_new_launches up to the loop: fetch a page.  An empty page or an RPC
\* error returns at once and changes nothing.
check_new_launches(m) ==
    LET value == get_signatures_for_address(mon[m].last_signature)
    IN  /\ mon[m].monitoring /\ mon[m].pc = "idle"
        /\ value # <<>>
        /\ mon' = [mon EXCEPT ![m].pc = "loop", ![m].queue = reversed(value),
                              ![m].newest = value[1]]
        /\ UNCHANGED <<chain, token_launches, developer_wallets, failed, profiled, scoreVars, alertVars, histVars>>

\* One iteration of the loop up to record_launch: is_token_creation, then
\* process_new_launch's get_transaction and extract_launch_data.
next_signature(m) ==
    LET sig == Head(mon[m].queue)
        tx == chain[sig]
    IN  /\ mon[m].pc = "loop" /\ mon[m].queue # <<>>
        /\ \/ /\ ~tx.create
              /\ Continue(m, TRUE)
           \/ /\ tx.create
              /\ mon' = [mon EXCEPT ![m].pc = "record",
                           ![m].launch_data = [creator_wallet |-> tx.creator,
                                               mint_address |-> tx.mint]]
              /\ UNCHANGED failed
           \/ \* get_transaction raises (in is_token_creation or in process_new_launch)
              /\ tx.create /\ CanFail
              /\ Continue(m, FALSE)
        /\ UNCHANGED <<chain, token_launches, developer_wallets, profiled, scoreVars, alertVars, histVars>>

\* Database.record_launch: INSERT ... ON CONFLICT (mint_address) DO NOTHING.
record_launch(launch_data) ==
    IF \E row \in token_launches : row.mint_address = launch_data.mint_address
    THEN token_launches
    ELSE token_launches \cup {launch_data}

process_record_launch(m) ==
    LET launch_data == mon[m].launch_data
    IN  /\ mon[m].pc = "record"
        /\ \/ /\ launch_data.mint_address # NoMint
              /\ token_launches' = record_launch(launch_data)
              /\ mon' = [mon EXCEPT ![m].pc = "get"]
              /\ UNCHANGED failed
           \/ \* mint_address is NOT NULL: the insert raises
              /\ launch_data.mint_address = NoMint
              /\ Continue(m, FALSE)
              /\ UNCHANGED token_launches
           \/ \* the store is unavailable
              /\ launch_data.mint_address # NoMint /\ CanFail
              /\ Continue(m, FALSE)
              /\ UNCHANGED token_launches
        /\ UNCHANGED <<chain, developer_wallets, profiled, scoreVars, alertVars, histVars>>

\* update_developer_profile, first half: Database.get_developer.
get_developer(m) ==
    /\ mon[m].pc = "get"
    /\ \/ /\ mon' = [mon EXCEPT ![m].pc = "upsert",
                       ![m].developer = developer_wallets[mon[m].launch_data.creator_wallet]]
          /\ UNCHANGED failed
       \/ /\ CanFail
          /\ Continue(m, FALSE)
    /\ UNCHANGED <<chain, token_launches, developer_wallets, profiled, scoreVars, alertVars, histVars>>

\* Database.upsert_developer(wallet, total_launches = n).
upsert_developer(wallet, n) ==
    [developer_wallets EXCEPT ![wallet] = [present |-> TRUE, total_launches |-> n]]

\* update_developer_profile, second half: the write of the count read before.
update_developer_profile(m) ==
    LET developer == mon[m].developer
        wallet == mon[m].launch_data.creator_wallet
    IN  /\ mon[m].pc = "upsert"
        /\ \/ /\ developer_wallets' =
                   upsert_developer(wallet, IF developer.present
                                            THEN developer.total_launches + 1 ELSE 1)
              /\ profiled' = profiled \cup {<<wallet, mon[m].launch_data.mint_address>>}
              /\ Continue(m, TRUE)
           \/ /\ CanFail
              /\ Continue(m, FALSE)
              /\ UNCHANGED <<developer_wallets, profiled>>
        /\ UNCHANGED <<chain, token_launches, scoreVars, alertVars, histVars>>

\* check_new_launches after the loop: last_signature = response.value[0].signature.
update_last_signature(m) ==
    /\ mon[m].pc = "loop" /\ mon[m].queue = <<>>
    /\ mon' = [mon EXCEPT ![m].pc = "idle", ![m].last_signature = mon[m].newest]
    /\ UNCHANGED <<chain, token_launches, developer_wallets, failed, profiled, scoreVars, alertVars, histVars>>

Init == InitMonitor /\ ScoreIdle /\ AlertIdle /\ HistoryIdle

Next ==
    \E m \in Monitors :
        \/ check_new_launches(m)
        \/ next_signature(m)
        \/ process_record_launch(m)
        \/ get_developer(m)
        \/ update_developer_profile(m)
        \/ update_last_signature(m)

Spec == Init /\ [][Next]_vars

(***************************************************************************)
(* Claims about ingestion by PumpFunMonitor (specification Spec).          *)
(***************************************************************************)
LaunchesProfiled(w) == {p \in profiled : p[1] = w}

C7_NoCheckpointPastFailure ==
    \A f \in failed :
        mon[f[1]].last_signature = 0 \/ f[2] < mon[f[1]].last_signature

(***************************************************************************)
(* SpecAlert: AnubisAlertSystem.process_new_launch (anubis_scoring.py),    *)
(* run by NumWorkers callers for launches of one wallet, while launches of *)
(* that wallet are being ingested.  calculate_anubis_score awaits each of  *)
(* its queries in turn: the profile row and the time patterns, then the    *)
(* velocity metrics and later the recent performance, both computed from   *)
(* the wallet's rows of token_launches.                                    *)
(***************************************************************************)
NumWorkers == 2
MaxIngest == 1
Workers == 1..NumWorkers
AlertWallet == "w1"

\* The value _update_wallet_scores writes to last_scored.
NOW == <<"NOW">>

\* Rows of anubis_wallet_profiles that no pass has scored yet.
ProvenProfile ==
    [present |-> TRUE, total_launches |-> MaxLaunches, successful_launches |-> MaxLaunches,
     total_rugs |-> 0, success_rate_7d |-> R(1), avg_seed_amount |-> None,
     last_scored |-> None]
SteadyHours ==
    [present |-> TRUE, consistency |-> Frac(8, 10), asia_ratio |-> Frac(7, 10),
     eu_ratio |-> R(0), us_ratio |-> R(0), weekend_ratio |-> R(0)]
NoNetwork == [network_size |-> 0, sybil_score |-> R(0), farming_suspected |-> FALSE]

\* A proven developer; the same developer with half of the launches rugged,
\* launched minutes apart; a wallet with a profile row and nothing else.
AlertReads ==
    {[profile |-> ProvenProfile, time_patterns |-> SteadyHours,
      velocity |-> [velocity_type |-> "selective", min_interval |-> None],
      network |-> NoNetwork,
      recent_performance |-> [launches_7d |-> 1, successes_7d |-> 1],
      liquidity |-> Absent, bonding |-> Absent, soph |-> PlainSoph],
     [profile |-> [ProvenProfile EXCEPT !.total_rugs = MaxLaunches \div 2,
                                        !.avg_seed_amount = Frac(1, 2)],
      time_patterns |-> SteadyHours,
      velocity |-> [velocity_type |-> "serial_spammer", min_interval |-> R(5)],
      network |-> NoNetwork,
      recent_performance |-> [launches_7d |-> 1, successes_7d |-> 1],
      liquidity |-> Absent, bonding |-> Absent, soph |-> PlainSoph],
     [profile |-> [present |-> TRUE, total_launches |-> 0, successful_launches |-> 0,
                   total_rugs |-> 0, success_rate_7d |-> R(0), avg_seed_amount |-> None,
                   last_scored |-> None],
      time_patterns |-> Absent,
      velocity |-> [velocity_type |-> "selective", min_interval |-> None],
      network |-> NoNetwork,
      recent_performance |-> [launches_7d |-> 0, successes_7d |-> 0],
      liquidity |-> Absent, bonding |-> Absent, soph |-> PlainSoph]}

IdleWorker ==
    [pc |-> "idle", token |-> NoMint, read |-> NoRead, seen_velocity |-> 0,
     seen_recent |-> 0, scores |-> NoSnap, first_score |-> FALSE, alert_level |-> "NONE"]

InitAlert ==
    /\ store \in AlertReads
    /\ ingests = 0
    /\ al = [k \in Workers |-> IdleWorker]
    /\ alerts_log = <<>>
    /\ ScoreIdle /\ MonitorIdle /\ HistoryIdle

\* Another task records a launch of the wallet (Database.record_launch): one
\* more row of token_launches in the last seven days, and other intervals
\* between the wallet's launches.
ingest_launch ==
    /\ ingests < MaxIngest
    /\ ingests' = ingests + 1
    /\ \E velocity \in Velocities :
         store' = [store EXCEPT !.velocity = velocity,
                                !.recent_performance.launches_7d = @ + 1]
    /\ UNCHANGED <<al, alerts_log, scoreVars, monVars, histVars>>

\* process_new_launch(wallet, token, platform) is called; calculate_anubis_score
\* awaits _get_wallet_profile and _analyze_time_patterns.
get_wallet_profile(k) ==
    /\ al[k].pc = "idle"
    /\ \E token \in Mints :
         al' = [al EXCEPT ![k].pc = "velocity", ![k].token = token,
                          ![k].read = [profile |-> store.profile,
                                       time_patterns |-> store.time_patterns]]
    /\ UNCHANGED <<store, ingests, alerts_log, scoreVars, monVars, histVars>>

\* _calculate_velocity_metrics: a query over the wallet's token_launches.
calculate_velocity_metrics(k) ==
    /\ al[k].pc = "velocity"
    /\ al' = [al EXCEPT ![k].pc = "recent",
                        ![k].read = [profile |-> al[k].read.profile,
                                     time_patterns |-> al[k].read.time_patterns,
                                     velocity |-> store.velocity],
                        ![k].seen_velocity = ingests]
    /\ UNCHANGED <<store, ingests, alerts_log, scoreVars, monVars, histVars>>

\* _analyze_network_connections, then _get_recent_performance (a second query
\* over the wallet's token_launches), then the analysers.
get_recent_performance(k) ==
    /\ al[k].pc = "recent"
    /\ al' = [al EXCEPT ![k].pc = "score",
                        ![k].read = [store EXCEPT !.profile = al[k].read.profile,
                                                  !.time_patterns = al[k].read.time_patterns,
                                                  !.velocity = al[k].read.velocity],
                        ![k].seen_recent = ingests]
    /\ UNCHANGED <<store, ingests, alerts_log, scoreVars, monVars, histVars>>

\* The rest of calculate_anubis_score, with _update_wallet_scores setting
\* last_scored of the wallet's row, then _should_alert. first_score records
\* that the row had never been scored before this update.
decide_alert(k) ==
    LET scores == calculate_anubis_score(al[k].read)
        level == IF scores.raised THEN "NONE" ELSE should_alert(scores)
    IN  /\ al[k].pc = "score"
        /\ al' = [al EXCEPT ![k].scores = scores, ![k].alert_level = level,
                            ![k].first_score = ~scores.raised
                                               /\ store.profile.last_scored = None,
                            ![k].pc = IF scores.raised THEN "raised"
                                      ELSE IF level = "NONE" THEN "done"
                                      ELSE "send"]
        /\ store' = IF scores.raised THEN store
                    ELSE [store EXCEPT !.profile.last_scored = NOW]
        /\ UNCHANGED <<ingests, alerts_log, scoreVars, monVars, histVars>>

\* _send_critical_alert / _send_high_priority_alert / _send_standard_alert:
\* bot.send_message returns, or raises and ends the pass.
send_alert(k) ==
    /\ al[k].pc = "send"
    /\ \/ al' = [al EXCEPT ![k].pc = "log"]
       \/ al' = [al EXCEPT ![k].pc = "send_failed"]
    /\ UNCHANGED <<store, ingests, alerts_log, scoreVars, monVars, histVars>>

\* _log_alert: INSERT INTO alerts_log.
log_alert(k) ==
    /\ al[k].pc = "log"
    /\ alerts_log' = Append(alerts_log,
                            [wallet_address |-> AlertWallet, token_address |-> al[k].token,
                             alert_level |-> al[k].alert_level])
    /\ al' = [al EXCEPT ![k].pc = "done"]
    /\ UNCHANGED <<store, ingests, scoreVars, monVars, histVars>>

NextAlert ==
    \/ ingest_launch
    \/ \E k \in Workers :
        \/ get_wallet_profile(k)
        \/ calculate_velocity_metrics(k)
        \/ get_recent_performance(k)
        \/ decide_alert(k)
        \/ send_alert(k)
        \/ log_alert(k)

SpecAlert == InitAlert /\ [][NextAlert]_vars

(***************************************************************************)
(* Claims about alerting and about the reads of a scoring pass (SpecAlert).*)
(***************************************************************************)
AlertRows(token) ==
    {i \in 1..Len(alerts_log) : alerts_log[i].wallet_address = AlertWallet
                                /\ alerts_log[i].token_address = token}

Decided(k) == al[k].pc \in {"send", "log", "send_failed", "done"}

C3_ExtremeSuppressesAlert ==
    \A k \in Workers :
        (Decided(k) /\ al[k].scores.risk_rating = "EXTREME") => al[k].alert_level = "NONE"

InRange(x) == RLe(R(0), x) /\ RLe(x, R(100))

Scored == snap # NoSnap /\ ~snap.raised

\* C8: for every profile whose counts are consistent (successes and rugs no
\* more than launches, rates in [0,1]) and every velocity, network, time-pattern
\* and recent-performance input, each of the nine component scores and the
\* composite anubis_score lie in [0,100], and alert_priority lies in [1,10].
C8_Boundedness ==
    Scored =>
        /\ \A f \in DOMAIN snap.component_scores : InRange(snap.component_scores[f])
        /\ InRange(snap.anubis_score)
        /\ snap.alert_priority \in 1..10

\* The bonus of _calculate_success_score would pass 100 and is capped.
C8_Witness ==
    /\ Scored
    /\ read.profile.successful_launches > 5
    /\ RGt(read.profile.success_rate_7d, R(0))
    /\ snap.component_scores.success_score = R(100)
    /\ DOMAIN snap.component_scores =
         {"success_score", "scam_score", "time_pattern_score", "velocity_score",
          "network_score", "momentum_score", "liquidity_score", "bonding_score",
          "sophistication_score"}

NoData(r) ==
    /\ r.profile.present /\ r.profile.total_launches = 0
    /\ r.profile.avg_seed_amount = None
    /\ ~r.time_patterns.present
    /\ r.velocity.min_interval = None
    /\ r.network.network_size = 0 /\ ~r.network.farming_suspected
    /\ r.recent_performance.launches_7d = 0

\* C9: a wallet with total_launches = 0 and no time patterns, no network links
\* and no recent activity gets anubis_score = 50.
C9_NeutralPrior ==
    (snap # NoSnap /\ NoData(read)) => (~snap.raised /\ snap.anubis_score = R(50))

(***************************************************************************)
(* SpecHistory: WalletScanner.run_historical_scan (wallet_scanner.py).     *)
(* For each platform in turn: _scan_platform_history returns the launches  *)
(* it parsed, _store_historical_results stores them one by one, and        *)
(* _update_developer_profiles adds each creator's number of launches to    *)
(* its profile.  A launch is [mint_address, creator_wallet, launch_time].  *)
(***************************************************************************)
Platforms == <<"pump_fun", "raydium_launchlab">>
MaxResults == 2
MaxTime == 2

Launches ==
    {[mint_address |-> m, creator_wallet |-> w, launch_time |-> t] :
        m \in Mints, w \in Wallets, t \in 1..MaxTime}

ResultLists == UNION {[1..n -> Launches] : n \in 0..MaxResults}

InitHistory ==
    /\ anubis_token_launches = [m \in Mints |-> Absent]
    /\ wallet_profiles = [w \in Wallets |-> Absent]
    /\ hist = [pc |-> "idle", running |-> FALSE, platform |-> 1, results |-> <<>>,
               i |-> 1, counted |-> <<>>]
    /\ ScoreIdle /\ MonitorIdle /\ AlertIdle

run_historical_scan ==
    /\ hist.pc = "idle"
    /\ hist' = [hist EXCEPT !.pc = "scan", !.running = TRUE, !.platform = 1]
    /\ UNCHANGED <<anubis_token_launches, wallet_profiles, scoreVars, monVars, alertVars>>

\* _scan_platform_history returns platform_results; _store_historical_results
\* returns at once when there are none.
scan_platform_history ==
    /\ hist.pc = "scan"
    /\ \E results \in ResultLists :
         hist' = [hist EXCEPT !.results = results, !.i = 1,
                              !.pc = IF results = <<>> THEN "profiles" ELSE "store"]
    /\ UNCHANGED <<anubis_token_launches, wallet_profiles, scoreVars, monVars, alertVars>>

\* INSERT INTO anubis.token_launches ... ON CONFLICT (mint_address) DO UPDATE
\* SET platform = EXCLUDED.platform, created_at = EXCLUDED.created_at.
upsert_token_launch(launch, platform) ==
    LET row == anubis_token_launches[launch.mint_address]
    IN  [anubis_token_launches EXCEPT ![launch.mint_address] =
            IF row.present
            THEN [row EXCEPT !.platform = platform, !.created_at = launch.launch_time]
            ELSE [present |-> TRUE, creator |-> launch.creator_wallet,
                  platform |-> platform, created_at |-> launch.launch_time]]

\* One iteration of the loop of _store_historical_results.
store_historical_results ==
    /\ hist.pc = "store"
    /\ anubis_token_launches' =
         upsert_token_launch(hist.results[hist.i], Platforms[hist.platform])
    /\ hist' = [hist EXCEPT !.i = @ + 1,
                            !.pc = IF hist.i = Len(hist.results) THEN "profiles" ELSE "store"]
    /\ UNCHANGED <<wallet_profiles, scoreVars, monVars, alertVars>>

LaunchesOf(launches, wallet) ==
    {i \in DOMAIN launches : launches[i].creator_wallet = wallet}

\* _update_developer_profiles: INSERT ... ON CONFLICT (wallet_address) DO UPDATE
\* SET total_launches = total_launches + len(wallet_launches), per creator;
\* then the next platform, or the end of run_historical_scan.
update_developer_profiles ==
    /\ hist.pc = "profiles"
    /\ wallet_profiles' =
         [w \in Wallets |->
            LET total_launches == Cardinality(LaunchesOf(hist.results, w))
            IN  IF total_launches = 0 THEN wallet_profiles[w]
                ELSE IF wallet_profiles[w].present
                THEN [wallet_profiles[w] EXCEPT !.total_launches = @ + total_launches]
                ELSE [present |-> TRUE, total_launches |-> total_launches]]
    /\ hist' = [hist EXCEPT !.counted = @ \o hist.results, !.results = <<>>,
                            !.pc = IF hist.platform < Len(Platforms) THEN "scan" ELSE "done",
                            !.platform = IF hist.platform < Len(Platforms) THEN @ + 1 ELSE @,
                            !.running = hist.platform < Len(Platforms)]
    /\ UNCHANGED <<anubis_token_launches, scoreVars, monVars, alertVars>>

NextHistory ==
    \/ run_historical_scan
    \/ scan_platform_history
    \/ store_historical_results
    \/ update_developer_profiles

SpecHistory == InitHistory /\ [][NextHistory]_vars

(***************************************************************************)
(* Claims about conflicting launches (SpecHistory).                        *)
(***************************************************************************)
\* The launches counted for a wallet whose stored row names that wallet as creator.
Accepted(w) ==
    {i \in DOMAIN hist.counted :
        /\ hist.counted[i].creator_wallet = w
        /\ anubis_token_launches[hist.counted[i].mint_address].present
        /\ anubis_token_launches[hist.counted[i].mint_address].creator = w}

\* The launch being stored names another creator than the stored row of its mint.
Conflicting(launch) ==
    /\ anubis_token_launches[launch.mint_address].present
    /\ anubis_token_launches[launch.mint_address].creator # launch.creator_wallet

RowsKept ==
    (hist.pc = "store" /\ Conflicting(hist.results[hist.i]))
    => anubis_token_launches' = anubis_token_launches

OnlyFirstCreatorProfiled ==
    \A w \in Wallets :
        IF wallet_profiles[w].present
        THEN wallet_profiles[w].total_launches <= Cardinality(Accepted(w))
        ELSE TRUE

\* C10: of two launches with the same mint_address and different creators the
\* second is rejected: storing it leaves the stored row as it was, and a
\* wallet's profile counts no launch whose stored row names another creator.
C10_ConflictingLaunchRejected ==
    [][RowsKept]_vars /\ []OnlyFirstCreatorProfiled

(***************************************************************************)
(* C13 (SpecScore): with total_launches and every other input of the pass  *)
(* fixed, a larger number of rugged launches never gives a smaller         *)
(* scam_score than the one the pass computed.                              *)
(***************************************************************************)
MoreRugs(r) == [read.profile EXCEPT !.total_rugs = r]

C13_ScamMonotoneInRugs ==
    Scored =>
        \A r \in 0..MaxLaunches :
            r >= read.profile.total_rugs =>
                RLe(snap.component_scores.scam_score,
                    calculate_scam_score(MoreRugs(r), read.velocity))

\* A pass over a wallet for which one more rug raises the scam score.
C13_Witness ==
    /\ Scored
    /\ read.profile.total_rugs < read.profile.total_launches
    /\ RLt(snap.component_scores.scam_score,
           calculate_scam_score(MoreRugs(read.profile.total_rugs + 1), read.velocity))

(***************************************************************************)
(* C15 (SpecScore): the alert decision of a pass is the first match of:    *)
(* CRITICAL if the tier is ELITE; HIGH if momentum_score > 80 and          *)
(* anubis_score > 60; STANDARD if anubis_score > 70 and the risk rating is *)
(* not EXTREME; otherwise no alert.                                        *)
(***************************************************************************)
DecisionInOrder(scores) ==
    IF scores.developer_tier = "ELITE" THEN "CRITICAL"
    ELSE IF RGt(scores.component_scores.momentum_score, R(80))
            /\ RGt(scores.anubis_score, R(60)) THEN "HIGH"
    ELSE IF RGt(scores.anubis_score, R(70)) /\ scores.risk_rating # "EXTREME" THEN "STANDARD"
    ELSE "NONE"

C15_WitnessStandard == Scored /\ alert_level = "STANDARD"
C15_WitnessHigh == Scored /\ alert_level = "HIGH"
C15_WitnessExtremeSilent == Scored /\ alert_level = "NONE" /\ snap.risk_rating = "EXTREME"

(***************************************************************************)
(* C17 (SpecScore): the tier a pass assigns is ELITE only when             *)
(* anubis_score > 80, successful_launches > 5 and the developer uses Jito  *)
(* or has more than 2 successful graduations; otherwise PRO above 60,      *)
(* AMATEUR above 40, else SCAMMER.                                         *)
(***************************************************************************)
TierWithSophistication(anubis_score, profile, soph) ==
    IF /\ RGt(anubis_score, R(80))
       /\ profile.successful_launches > 5
       /\ (soph.uses_jito \/ soph.successful_graduations > 2) THEN "ELITE"
    ELSE IF RGt(anubis_score, R(60)) THEN "PRO"
    ELSE IF RGt(anubis_score, R(40)) THEN "AMATEUR"
    ELSE "SCAMMER"

C17_EliteNeedsSophistication ==
    Scored => snap.developer_tier =
                  TierWithSophistication(snap.anubis_score, read.profile, read.soph)

(***************************************************************************)
(* C19 (SpecScore): the scam score of a pass is min(100, rug_rate * 30     *)
(* + 25 if SERIAL_SPAMMER + 15 if min_interval < 10 + 20 if                *)
(* bot_likelihood > 0.7 + 15 if the fastest bonding time < 10 + 10 if      *)
(* avg_seed_amount < 1), a value of 0 counting as below its threshold.     *)
(***************************************************************************)
ScamScoreSixTerms(r) ==
    LET rug == IF r.profile.total_launches > 0
               THEN RMul(Frac(r.profile.total_rugs, r.profile.total_launches), R(30))
               ELSE R(0)
        spam == IF r.velocity.velocity_type = "serial_spammer" THEN R(25) ELSE R(0)
        fast == IF r.velocity.min_interval # None /\ RLt(r.velocity.min_interval, R(10))
                THEN R(15) ELSE R(0)
        bots == IF r.liquidity.present /\ RGt(r.liquidity.bot_likelihood, Frac(7, 10))
                THEN R(20) ELSE R(0)
        bond == IF r.bonding.present /\ RLt(r.bonding.min_bond_time, R(10))
                THEN R(15) ELSE R(0)
        seed == IF r.profile.avg_seed_amount # None /\ RLt(r.profile.avg_seed_amount, R(1))
                THEN R(10) ELSE R(0)
    IN  RMin(RAdd(RAdd(RAdd(rug, spam), RAdd(fast, bots)), RAdd(bond, seed)), R(100))

C19_ScamScoreFormula ==
    Scored => snap.component_scores.scam_score = ScamScoreSixTerms(read)

(***************************************************************************)
(* C20 (SpecScore): the time-pattern score of a pass is 50, plus 20 if     *)
(* consistency > 0.7, plus 15 if more than 60% of the launches fall in any *)
(* one of the Asia, EU and US windows, minus 10 if more than 60% fall on a *)
(* weekend, clamped to [0, 100]; an EU-window developer gets the +15.      *)
(***************************************************************************)
TimeScoreAnyWindow(patterns) ==
    IF ~patterns.present THEN R(50)
    ELSE
      LET a == IF RGt(patterns.consistency, Frac(7, 10)) THEN 20 ELSE 0
          b == IF \/ RGt(patterns.asia_ratio, Frac(6, 10))
                  \/ RGt(patterns.eu_ratio, Frac(6, 10))
                  \/ RGt(patterns.us_ratio, Frac(6, 10))
               THEN 15 ELSE 0
          c == IF RGt(patterns.weekend_ratio, Frac(6, 10)) THEN 10 ELSE 0
      IN  RMax(R(0), RMin(R(50 + a + b - c), R(100)))

C20_TimePatternScore ==
    Scored => snap.component_scores.time_pattern_score = TimeScoreAnyWindow(read.time_patterns)

(***************************************************************************)
(* SpecWallet: a scoring pass from the rows of one wallet.                 *)
(*                                                                         *)
(* wallet_data is [profile, pattern, launches, recent_performance]:        *)
(* the row of anubis_wallet_profiles; the wallet's row of                  *)
(* launch_time_patterns, Absent when the table has none (the wallets here  *)
(* launch in at most one (hour, weekday) cell); the launch_time values of  *)
(* its token_launches rows of the last 90 days, in minutes since the start *)
(* of the window, newest first; and the 7-day counts.                      *)
(***************************************************************************)
MinutesPerDay == 1440
Hours == 0..23
Weekdays == 0..6

SetMin(S) == CHOOSE x \in S : \A y \in S : x <= y
SetMax(S) == CHOOSE x \in S : \A y \in S : x >= y

date(launch_time) == launch_time \div MinutesPerDay

\* _analyze_time_patterns and _calculate_time_consistency for at most one row:
\* the probabilities are [1], the entropy is 0 and the consistency 1.
analyze_time_patterns(pattern) ==
    IF ~pattern.present THEN Absent
    ELSE
      LET total_launches == pattern.launch_count
          ratio(in_window) == IF total_launches > 0 /\ in_window THEN R(1) ELSE R(0)
      IN  [present |-> TRUE,
           asia_ratio |-> ratio(22 <= pattern.hour_utc \/ pattern.hour_utc < 2),
           eu_ratio |-> ratio(6 <= pattern.hour_utc /\ pattern.hour_utc < 10),
           us_ratio |-> ratio(13 <= pattern.hour_utc /\ pattern.hour_utc < 17),
           weekend_ratio |-> ratio(pattern.day_of_week \in {5, 6}),
           consistency |-> IF total_launches = 0 THEN R(0) ELSE R(1)]

\* _calculate_velocity_metrics on the fetched launch times.
velocity_metrics(launches) ==
    IF Len(launches) < 2
    THEN [velocity_type |-> "selective", avg_daily |-> R(0), max_daily |-> None,
          min_interval |-> None]
    ELSE
      LET intervals == [i \in 1..(Len(launches) - 1) |-> launches[i] - launches[i + 1]]
          dates == {date(launches[i]) : i \in DOMAIN launches}
          daily_counts == [d \in dates |->
                              Cardinality({i \in DOMAIN launches : date(launches[i]) = d})]
          avg_daily == Frac(Len(launches), Cardinality(dates))
          max_daily == SetMax({daily_counts[d] : d \in dates})
          velocity_type == IF max_daily > 5 THEN "serial_spammer"
                           ELSE IF RGt(avg_daily, R(2)) THEN "high_frequency"
                           ELSE IF RGt(avg_daily, Frac(5, 10)) THEN "moderate"
                           ELSE "selective"
      IN  [velocity_type |-> velocity_type, avg_daily |-> avg_daily,
           max_daily |-> max_daily,
           min_interval |-> R(SetMin({intervals[i] : i \in DOMAIN intervals}))]

\* A wallet's first launch, with no outcome yet, at hour h of weekday d.
FreshProfile ==
    [present |-> TRUE, total_launches |-> 1, successful_launches |-> 0,
     success_rate_7d |-> R(0), total_rugs |-> 0, avg_seed_amount |-> None]

NewWallets ==
    {[profile |-> FreshProfile,
      pattern |-> IF counted
                  THEN [present |-> TRUE, hour_utc |-> h, day_of_week |-> d,
                        launch_count |-> 1]
                  ELSE Absent,
      launches |-> <<d * MinutesPerDay + h * 60>>,
      recent_performance |-> [launches_7d |-> 1, successes_7d |-> 0]] :
        h \in Hours, d \in Weekdays, counted \in BOOLEAN}

\* Ten launches in 33 days (0.3 a day): one every fourth day, the last two 120
\* minutes apart; 4 successful, none rugged.
ScenarioALaunches ==
    [i \in 1..10 |-> IF i = 1 THEN 32 * MinutesPerDay + 120
                     ELSE (10 - i) * 4 * MinutesPerDay]

ScenarioAWallets ==
    {[profile |-> [present |-> TRUE, total_launches |-> 10, successful_launches |-> 4,
                   success_rate_7d |-> sr, total_rugs |-> 0, avg_seed_amount |-> None],
      pattern |-> Absent,
      launches |-> ScenarioALaunches,
      recent_performance |-> rp] :
        sr \in {R(0), Frac(4, 10), R(1)},
        rp \in {[launches_7d |-> 0, successes_7d |-> 0],
                [launches_7d |-> 2, successes_7d |-> 2]}}

\* Other launch histories: two launches two days apart; three a day on two
\* days; six in one day, five minutes apart.
LaunchLists ==
    {<<2 * MinutesPerDay, 0>>,
     <<MinutesPerDay + 20, MinutesPerDay + 10, MinutesPerDay, 20, 10, 0>>,
     <<25, 20, 15, 10, 5, 0>>}

OtherWallets ==
    {[profile |-> [present |-> TRUE, total_launches |-> Len(l), successful_launches |-> 0,
                   success_rate_7d |-> R(0), total_rugs |-> 0, avg_seed_amount |-> None],
      pattern |-> Absent,
      launches |-> l,
      recent_performance |-> [launches_7d |-> 0, successes_7d |-> 0]] : l \in LaunchLists}

WalletData == NewWallets \cup ScenarioAWallets \cup OtherWallets

InitWallet ==
    /\ wallet_data \in WalletData
    /\ read = NoRead
    /\ snap = NoSnap
    /\ alert_level = None
    /\ MonitorIdle /\ AlertIdle /\ HistoryIdle

\* calculate_anubis_score up to the component scores: the queries and analysers.
\* No row of wallet_networks names the wallet and the liquidity, bonding, Jito,
\* metadata and migration analysers find nothing.
fetch_wallet_data ==
    /\ read = NoRead
    /\ read' = [profile |-> wallet_data.profile,
                time_patterns |-> analyze_time_patterns(wallet_data.pattern),
                velocity |-> velocity_metrics(wallet_data.launches),
                network |-> NoNetwork,
                recent_performance |-> wallet_data.recent_performance,
                liquidity |-> Absent, bonding |-> Absent, soph |-> PlainSoph]
    /\ UNCHANGED <<snap, alert_level, wallet_data, monVars, alertVars, histVars>>

NextWallet == fetch_wallet_data \/ Score

SpecWallet == InitWallet /\ [][NextWallet]_vars

(***************************************************************************)
(* C11 (SpecWallet): a wallet with exactly one launch and no outcome is    *)
(* scored without an error and its tier is AMATEUR or SCAMMER, whatever    *)
(* the hour and the weekday of the launch.                                 *)
(***************************************************************************)
C11_NewWalletNotPro ==
    (wallet_data \in NewWallets /\ snap # NoSnap) =>
        /\ ~snap.raised
        /\ snap.developer_tier \in {"AMATEUR", "SCAMMER"}

(***************************************************************************)
(* C12 (SpecWallet): the wallet of scenario A (10 launches, 4 successful,  *)
(* no rug, smallest interval 120 minutes, 0.3 launches a day) is scored    *)
(* with velocity SELECTIVE, scam_score < 20, anubis_score > 60 and tier    *)
(* PRO or ELITE.                                                           *)
(***************************************************************************)
C12_ScenarioA ==
    (wallet_data \in ScenarioAWallets /\ snap # NoSnap) =>
        /\ ~snap.raised
        /\ read.velocity.velocity_type = "selective"
        /\ RLt(snap.component_scores.scam_score, R(20))
        /\ RGt(snap.anubis_score, R(60))
        /\ snap.developer_tier \in {"PRO", "ELITE"}

(***************************************************************************)
(* C18 (SpecWallet): a wallet with fewer than 2 launches in the window is  *)
(* SELECTIVE, and so is a wallet with at least 2 launches that launches at *)
(* most once every two days.                                               *)
(***************************************************************************)
AtMostOneEveryTwoDays(launches) ==
    \A i \in 1..(Len(launches) - 1) : launches[i] - launches[i + 1] >= 2 * MinutesPerDay

C18_SparseLaunchesSelective ==
    read # NoRead =>
        /\ Len(wallet_data.launches) < 2 => read.velocity.velocity_type = "selective"
        /\ (Len(wallet_data.launches) >= 2 /\ AtMostOneEveryTwoDays(wallet_data.launches))
               => read.velocity.velocity_type = "selective"

ScanMints == Mints \cup {"m3"}
MaxPolls == 2
SuccessMcap == 100000
PeakMcaps == {R(0), R(SuccessMcap)}

StoredLaunches ==
    {Absent} \cup {[present |-> TRUE, creator |-> "w1", platform |-> "pump_fun",
                    created_at |-> 0, peak_mcap |-> pm] : pm \in PeakMcaps}

InitScan ==
    /\ anubis_token_launches \in [ScanMints -> StoredLaunches]
    /\ wallet_profiles = [w \in Wallets |-> Absent]
    /\ hist = [pc |-> "poll", polls |-> 0, creator |-> "null", mint |-> NoMint,
               alerts |-> <<>>]
    /\ ScoreIdle /\ MonitorIdle /\ AlertIdle

\* The loop finds a launch transaction: creator is accountKeys[0] and mint the
\* first 44-character key after it.
scan_pump_historical ==
    /\ hist.pc = "poll"
    /\ hist.polls < MaxPolls
    /\ \E creator \in Wallets, mint \in ScanMints :
         hist' = [hist EXCEPT !.pc = "insert", !.polls = @ + 1,
                              !.creator = creator, !.mint = mint]
    /\ UNCHANGED <<anubis_token_launches, wallet_profiles, scoreVars, monVars, alertVars>>

\* INSERT INTO anubis.token_launches ... ON CONFLICT (mint_address) DO NOTHING.
insert_token_launch ==
    /\ hist.pc = "insert"
    /\ IF anubis_token_launches[hist.mint].present
       THEN UNCHANGED anubis_token_launches
       ELSE \E pm \in {None, R(0)} :
              anubis_token_launches' =
                [anubis_token_launches EXCEPT ![hist.mint] =
                    [present |-> TRUE, creator |-> hist.creator, platform |-> "pump_fun",
                     created_at |-> hist.polls, peak_mcap |-> pm]]
    /\ hist' = [hist EXCEPT !.pc = "check"]
    /\ UNCHANGED <<wallet_profiles, scoreVars, monVars, alertVars>>

\* check_developer_profile: an existing profile alerts when its tier is ELITE;
\* a wallet without one gets create_developer_profile and no alert.
check_developer_profile ==
    /\ hist.pc = "check"
    /\ LET profile == wallet_profiles[hist.creator]
       IN  hist' = [hist EXCEPT
                       !.pc = IF profile.present THEN "poll" ELSE "create",
                       !.alerts = IF profile.present /\ profile.developer_tier = "ELITE"
                                  THEN Append(@, hist.creator) ELSE @]
    /\ UNCHANGED <<anubis_token_launches, wallet_profiles, scoreVars, monVars, alertVars>>

\* The row create_developer_profile computes from the wallet's launches, a
\* non-empty set of rows with a peak_mcap.
developer_profile(launches) ==
    LET total_launches == Cardinality(launches)
        successful == Cardinality({m \in launches :
                                      RLe(R(SuccessMcap), anubis_token_launches[m].peak_mcap)})
        success_rate == Frac(successful, total_launches)
        score == RMin(R(100), RAdd(RMul(success_rate, R(100)),
                                   R(IF total_launches < 20 THEN total_launches ELSE 20)))
    IN  [present |-> TRUE,
         anubis_score |-> score,
         developer_tier |-> IF RLe(R(80), score) THEN "ELITE"
                            ELSE IF RLe(R(60), score) THEN "PRO"
                            ELSE IF RLe(R(40), score) THEN "AMATEUR"
                            ELSE "SCAMMER",
         risk_level |-> IF RLe(R(60), score) THEN "LOW"
                        ELSE IF RLe(R(40), score) THEN "MEDIUM"
                        ELSE "HIGH",
         total_launches |-> total_launches,
         success_rate |-> success_rate,
         rug_rate |-> RSub(R(1), success_rate)]

\* create_developer_profile: returns when the wallet has no launch; the
\* comparison of a NULL peak_mcap raises and the exception is swallowed;
\* otherwise INSERT ... ON CONFLICT (wallet_address) DO UPDATE.
create_developer_profile ==
    /\ hist.pc = "create"
    /\ LET launches == {m \in ScanMints : /\ anubis_token_launches[m].present
                                          /\ anubis_token_launches[m].creator = hist.creator}
       IN  IF launches = {} \/ \E m \in launches : anubis_token_launches[m].peak_mcap = None
           THEN UNCHANGED wallet_profiles
           ELSE wallet_profiles' =
                  [wallet_profiles EXCEPT ![hist.creator] = developer_profile(launches)]
    /\ hist' = [hist EXCEPT !.pc = "poll"]
    /\ UNCHANGED <<anubis_token_launches, scoreVars, monVars, alertVars>>

NextScan ==
    \/ scan_pump_historical
    \/ insert_token_launch
    \/ check_developer_profile
    \/ create_developer_profile

SpecScan == InitScan /\ [][NextScan]_vars

(***************************************************************************)
(* C16 (SpecScan): every risk rating written for a wallet is the first     *)
(* match of: EXTREME if scam_score > 75 or anubis_score < 25; HIGH if      *)
(* scam_score > 50 or anubis_score < 40; MEDIUM if scam_score > 30 or      *)
(* anubis_score < 60; otherwise LOW.  create_developer_profile computes no *)
(* scam score: its rating must be the rule's for some scam score.          *)
(***************************************************************************)
RiskByFirstMatch(anubis_score, scam_score) ==
    IF RGt(scam_score, R(75)) \/ RLt(anubis_score, R(25)) THEN "EXTREME"
    ELSE IF RGt(scam_score, R(50)) \/ RLt(anubis_score, R(40)) THEN "HIGH"
    ELSE IF RGt(scam_score, R(30)) \/ RLt(anubis_score, R(60)) THEN "MEDIUM"
    ELSE "LOW"

C16_RiskRatingFirstMatch ==
    \A w \in Wallets :
        wallet_profiles[w].present =>
            \E scam_score \in {R(0), R(31), R(51), R(76)} :
                wallet_profiles[w].risk_level =
                    RiskByFirstMatch(wallet_profiles[w].anubis_score, scam_score)

(***************************************************************************)
(* C29 (SpecScore): no snapshot of a pass has developer_tier ELITE         *)
(* together with risk_rating EXTREME.                                      *)
(***************************************************************************)
C29_NoEliteExtreme ==
    Scored => ~(snap.developer_tier = "ELITE" /\ snap.risk_rating = "EXTREME")

\* A pass that rates a developer with more than 5 successes EXTREME with a
\* composite above 60: the tier threshold of 80 is what keeps it from ELITE.
C29_Witness ==
    /\ Scored
    /\ snap.risk_rating = "EXTREME"
    /\ read.profile.successful_launches > 5
    /\ RGt(snap.anubis_score, R(60))
    /\ snap.developer_tier = "PRO"

(***************************************************************************)
(* SpecPoll: one PumpFunMonitor's polling loop over time (pump_monitor.py  *)
(* start_monitoring, check_new_launches, stop_monitoring) and              *)
(* AnubisBot.monitor_with_recovery (anubis_bot.py), while transactions     *)
(* arrive on chain.  mon is the monitor: its fields, its position (pc      *)
(* "loop" between passes, "pass" inside check_new_launches, "returned"     *)
(* after start_monitoring returned), whether it runs under                 *)
(* monitor_with_recovery, and two records of what happened: stop_called    *)
(* and handed, the signatures passed to process_new_launch in order.       *)
(* An RPC error in a pass is caught and changes nothing.                   *)
(***************************************************************************)
MaxChain == 3

PollTxKinds ==
    {[create |-> FALSE, creator |-> "w1", mint |-> NoMint],
     [create |-> TRUE, creator |-> "w1", mint |-> "m1"]}

InitPoll ==
    /\ chain \in UNION {[1..n -> PollTxKinds] : n \in 0..InitChain}
    /\ \E recovery \in BOOLEAN :
         mon = [monitoring |-> TRUE, last_signature |-> 0, pc |-> "loop", page |-> <<>>,
                recovery |-> recovery, stop_called |-> FALSE, handed |-> <<>>]
    /\ token_launches = {}
    /\ developer_wallets = {}
    /\ failed = {}
    /\ profiled = {}
    /\ ScoreIdle /\ AlertIdle /\ HistoryIdle

\* A transaction of the program is confirmed on chain.
new_transaction ==
    /\ Len(chain) < MaxChain
    /\ \E tx \in PollTxKinds : chain' = Append(chain, tx)
    /\ UNCHANGED <<token_launches, developer_wallets, mon, failed, profiled,
                   scoreVars, alertVars, histVars>>

\* `while self.monitoring:` is true and check_new_launches fetches a page.
begin_check_new_launches ==
    /\ mon.pc = "loop" /\ mon.monitoring
    /\ mon' = [mon EXCEPT !.pc = "pass",
                          !.page = get_signatures_for_address(mon.last_signature)]
    /\ UNCHANGED <<chain, token_launches, developer_wallets, failed, profiled,
                   scoreVars, alertVars, histVars>>

\* The signatures of a page, oldest first, that is_token_creation accepts.
creations(page) == SelectSeq(reversed(page), LAMBDA sig : chain[sig].create)

\* The rest of check_new_launches: the loop over the page, then
\* last_signature; then the sleep of start_monitoring.
end_check_new_launches ==
    /\ mon.pc = "pass"
    /\ mon' = [mon EXCEPT !.pc = "loop", !.page = <<>>,
                          !.handed = @ \o creations(mon.page),
                          !.last_signature = IF mon.page = <<>> THEN @ ELSE mon.page[1]]
    /\ UNCHANGED <<chain, token_launches, developer_wallets, failed, profiled,
                   scoreVars, alertVars, histVars>>

\* stop_monitoring, called by another task while the monitor awaits.
stop_monitoring ==
    /\ mon.monitoring
    /\ mon' = [mon EXCEPT !.monitoring = FALSE, !.stop_called = TRUE]
    /\ UNCHANGED <<chain, token_launches, developer_wallets, failed, profiled,
                   scoreVars, alertVars, histVars>>

\* `while self.monitoring:` is false: start_monitoring returns.
start_monitoring_returns ==
    /\ mon.pc = "loop" /\ ~mon.monitoring
    /\ mon' = [mon EXCEPT !.pc = "returned"]
    /\ UNCHANGED <<chain, token_launches, developer_wallets, failed, profiled,
                   scoreVars, alertVars, histVars>>

\* monitor_with_recovery: `while True:` calls start_monitoring again, which
\* sets monitoring.
monitor_with_recovery ==
    /\ mon.pc = "returned" /\ mon.recovery
    /\ mon' = [mon EXCEPT !.pc = "loop", !.monitoring = TRUE]
    /\ UNCHANGED <<chain, token_launches, developer_wallets, failed, profiled,
                   scoreVars, alertVars, histVars>>

NextPoll ==
    \/ new_transaction
    \/ begin_check_new_launches
    \/ end_check_new_launches
    \/ stop_monitoring
    \/ start_monitoring_returns
    \/ monitor_with_recovery

SpecPoll == InitPoll /\ [][NextPoll]_vars

(***************************************************************************)
(* C22 (SpecPoll): over successive polls, no signature is handed to        *)
(* process_new_launch more than once.                                      *)
(***************************************************************************)
C22_SignatureHandedOnce ==
    \A i, j \in DOMAIN mon.handed : i # j => mon.handed[i] # mon.handed[j]

(***************************************************************************)
(* C30 (SpecPoll): once stop_monitoring has been called, no pass of        *)
(* check_new_launches begins, also under monitor_with_recovery.            *)
(***************************************************************************)
NoPassAfterStop == mon.stop_called => ~(mon.pc # "pass" /\ mon'.pc = "pass")

NextPollLive ==
    \/ new_transaction
    \/ begin_check_new_launches
    \/ end_check_new_launches

SpecPollLive ==
    /\ InitPoll
    /\ [][NextPollLive]_vars
    /\ WF_vars(begin_check_new_launches)
    /\ WF_vars(end_check_new_launches)

(***************************************************************************)
(* C23 (SpecPollLive): a token creation that is on chain and newer than    *)
(* the recorded last_signature is eventually handed to process_new_launch  *)
(* by a later poll.                                                        *)
(***************************************************************************)
NewerCreation(sig) ==
    /\ sig \in DOMAIN chain
    /\ chain[sig].create
    /\ mon.last_signature # 0
    /\ sig > mon.last_signature

Handed(sig) == \E i \in DOMAIN mon.handed : mon.handed[i] = sig

C23_NewLaunchEventuallyProcessed ==
    \A sig \in 1..MaxChain : NewerCreation(sig) ~> Handed(sig)

(***************************************************************************)
(* SpecSched: AnubisBot._check_and_run_historical_scan (run.py), invoked   *)
(* NumChecks times, the invocations interleaving at their awaits.  Here    *)
(* hist is the bot: historical_scan_running, the system_config row         *)
(* 'historical_scan_complete' ("none", "stale" when older than 7 days, or  *)
(* "fresh"), and per invocation its position, the scan_status['running']   *)
(* of the scanner it created and whether its scan raised.                  *)
(***************************************************************************)
NumChecks == 2
Checks == 1..NumChecks

IdleCheck == [pc |-> "idle", scan_status_running |-> FALSE, raised |-> FALSE]

InitSched ==
    /\ \E config \in {"none", "stale", "fresh"} :
         hist = [historical_scan_running |-> FALSE, system_config |-> config,
                 inv |-> [k \in Checks |-> IdleCheck]]
    /\ anubis_token_launches = <<>>
    /\ wallet_profiles = <<>>
    /\ ScoreIdle /\ MonitorIdle /\ AlertIdle

\* `if self.historical_scan_running: return`, else on to the awaited read.
check_historical_scan_running(k) ==
    /\ hist.inv[k].pc = "idle"
    /\ hist' = [hist EXCEPT !.inv[k].pc = IF hist.historical_scan_running
                                          THEN "done" ELSE "read"]
    /\ UNCHANGED <<anubis_token_launches, wallet_profiles, scoreVars, monVars, alertVars>>

\* The SELECT on system_config returns, or raises and the check ends.
read_system_config(k) ==
    /\ hist.inv[k].pc = "read"
    /\ \/ hist' = [hist EXCEPT !.inv[k].pc =
                       CASE hist.system_config = "none" -> "historical"
                         [] hist.system_config = "stale" -> "incremental"
                         [] OTHER -> "done"]
       \/ hist' = [hist EXCEPT !.inv[k].pc = "done"]
    /\ UNCHANGED <<anubis_token_launches, wallet_profiles, scoreVars, monVars, alertVars>>

\* _run_historical_scan / _run_incremental_scan: historical_scan_running = True.
run_scan(k) ==
    /\ hist.inv[k].pc \in {"historical", "incremental"}
    /\ hist' = [hist EXCEPT !.historical_scan_running = TRUE, !.inv[k].pc = "scanner"]
    /\ UNCHANGED <<anubis_token_launches, wallet_profiles, scoreVars, monVars, alertVars>>

\* scanner.run_historical_scan begins: scan_status["running"] = True.
scanner_begins(k) ==
    /\ hist.inv[k].pc = "scanner"
    /\ hist' = [hist EXCEPT !.inv[k].pc = "scanning", !.inv[k].scan_status_running = TRUE]
    /\ UNCHANGED <<anubis_token_launches, wallet_profiles, scoreVars, monVars, alertVars>>

\* scanner.run_historical_scan returns or re-raises; its finally block runs.
scanner_ends(k) ==
    /\ hist.inv[k].pc = "scanning"
    /\ \E raised \in BOOLEAN :
         hist' = [hist EXCEPT !.inv[k].pc = "finish", !.inv[k].raised = raised,
                              !.inv[k].scan_status_running = FALSE]
    /\ UNCHANGED <<anubis_token_launches, wallet_profiles, scoreVars, monVars, alertVars>>

\* finish_scan with the flag reset after the last statement of the try block
\* instead of in a finally block.
finish_scan_without_finally(k) ==
    /\ hist.inv[k].pc = "finish"
    /\ \/ /\ ~hist.inv[k].raised
          /\ hist' = [hist EXCEPT !.inv[k].pc = "done", !.system_config = "fresh",
                                  !.historical_scan_running = FALSE]
       \/ hist' = [hist EXCEPT !.inv[k].pc = "done", !.inv[k].raised = TRUE]
    /\ UNCHANGED <<anubis_token_launches, wallet_profiles, scoreVars, monVars, alertVars>>

\* The rest of the scan in run.py: the write of system_config when the scanner
\* returned (the write may raise too), the except clause, and
\* `finally: self.historical_scan_running = False`.
finish_scan(k) ==
    /\ hist.inv[k].pc = "finish"
    /\ \/ /\ ~hist.inv[k].raised
          /\ hist' = [hist EXCEPT !.inv[k].pc = "done", !.system_config = "fresh",
                                  !.historical_scan_running = FALSE]
       \/ hist' = [hist EXCEPT !.inv[k].pc = "done", !.inv[k].raised = TRUE,
                               !.historical_scan_running = FALSE]
    /\ UNCHANGED <<anubis_token_launches, wallet_profiles, scoreVars, monVars, alertVars>>

NextSched ==
    \E k \in Checks :
        \/ check_historical_scan_running(k)
        \/ read_system_config(k)
        \/ run_scan(k)
        \/ scanner_begins(k)
        \/ scanner_ends(k)
        \/ finish_scan(k)

SpecSched == InitSched /\ [][NextSched]_vars

(***************************************************************************)
(* C24 (SpecSched): at most one historical or incremental scan is in       *)
(* progress at any time, for every interleaving of the invocations.        *)
(***************************************************************************)
InScan(k) == hist.inv[k].pc \in {"scanner", "scanning", "finish"}

FlagsResetAtEnd ==
    \A k \in Checks :
        /\ (InScan(k) /\ hist'.inv[k].pc = "done") => ~hist'.historical_scan_running
        /\ hist'.inv[k].pc \in {"finish", "done"} => ~hist'.inv[k].scan_status_running

C25_RunningFlagReset == [][FlagsResetAtEnd]_vars

\* A scan that ended by an exception, with the flag False.
C25_Witness ==
    \E k \in Checks :
        /\ hist.inv[k].pc = "done"
        /\ hist.inv[k].raised
        /\ ~hist.historical_scan_running

(***************************************************************************)
(* SpecPages: WalletScanner.run_historical_scan paging through each        *)
(* platform's signatures with _scan_platform_history.  Here hist is the    *)
(* scan: the platform being scanned, each platform's bounded history       *)
(* (newest first; a signature is a launch in the date range, another       *)
(* transaction in the range, or older than start_date), before_signature   *)
(* (0 for None, else the position of the last signature of the previous    *)
(* page) and the number of launches collected.                             *)
(***************************************************************************)
MaxHistory == 2
ScanPageLimit == 2
SigKinds == {"launch", "other", "too_old"}
Histories == UNION {[1..n -> SigKinds] : n \in 0..MaxHistory}

InitPages ==
    /\ \E history \in [1..Len(Platforms) -> Histories] :
         hist = [pc |-> "post", platform |-> 1, history |-> history,
                 before_signature |-> 0, all_launches |-> 0]
    /\ anubis_token_launches = <<>>
    /\ wallet_profiles = <<>>
    /\ ScoreIdle /\ MonitorIdle /\ AlertIdle

\* getSignaturesForAddress(limit, before): the signatures after before_signature.
signatures_page(history, before) ==
    SubSeq(history, before + 1, SetMin({Len(history), before + ScanPageLimit}))

\* The request returns.  An empty result breaks the loop; a signature older
\* than start_date returns the launches collected so far; else the launches of
\* the page are appended and before_signature moves to the page's last entry.
post_signatures ==
    LET signatures == signatures_page(hist.history[hist.platform], hist.before_signature)
        old == {i \in 1..Len(signatures) : signatures[i] = "too_old"}
        upto == IF old = {} THEN Len(signatures) ELSE SetMin(old) - 1
        found == Cardinality({i \in 1..upto : signatures[i] = "launch"})
    IN  /\ hist.pc = "post"
        /\ hist' = [hist EXCEPT
                       !.all_launches = @ + found,
                       !.before_signature = IF signatures = <<>> \/ old # {}
                                            THEN @ ELSE @ + Len(signatures),
                       !.pc = IF signatures = <<>> \/ old # {} THEN "store" ELSE "post"]
        /\ UNCHANGED <<anubis_token_launches, wallet_profiles, scoreVars, monVars, alertVars>>

\* client.post or response.json() raises: `except Exception` logs the error.
post_signatures_raises ==
    /\ hist.pc = "post"
    /\ hist' = [hist EXCEPT !.pc = "backoff"]
    /\ UNCHANGED <<anubis_token_launches, wallet_profiles, scoreVars, monVars, alertVars>>

\* `await asyncio.sleep(1)`, then the while True loop asks for the same page.
back_off ==
    /\ hist.pc = "backoff"
    /\ hist' = [hist EXCEPT !.pc = "post"]
    /\ UNCHANGED <<anubis_token_launches, wallet_profiles, scoreVars, monVars, alertVars>>

\* _store_historical_results and _update_developer_profiles for the platform:
\* an exception is re-raised by run_historical_scan, else the next platform is
\* scanned or all_results is returned.
platform_scanned ==
    /\ hist.pc = "store"
    /\ \/ hist' = [hist EXCEPT !.pc = "raised"]
       \/ hist' = [hist EXCEPT
                      !.pc = IF hist.platform = Len(Platforms) THEN "returned" ELSE "post",
                      !.platform = IF hist.platform = Len(Platforms) THEN @ ELSE @ + 1,
                      !.before_signature = 0,
                      !.all_launches = 0]
    /\ UNCHANGED <<anubis_token_launches, wallet_profiles, scoreVars, monVars, alertVars>>

NextPages ==
    \/ post_signatures
    \/ post_signatures_raises
    \/ back_off
    \/ platform_scanned

\* The scan's coroutine is always resumed: some step is eventually taken.
SpecPages == InitPages /\ [][NextPages]_vars /\ WF_vars(NextPages)

(***************************************************************************)
(* C26 (SpecPages): run_historical_scan terminates, returning or raising,  *)
(* for every bounded history, also when the requests for a page of         *)
(* signatures keep failing.                                                *)
(***************************************************************************)
C26_ScanTerminates == <>(hist.pc \in {"returned", "raised"})

(***************************************************************************)
(* SpecRetry: the metadata retry queue of WalletScanner.  Here hist is the *)
(* queue (per mint Absent or a row with its retry_count), the position of  *)
(* retry_metadata_fetches with the tokens its SELECT returned, and per     *)
(* mint the number of attempts the retry task made since the mint was      *)
(* queued.  next_retry < NOW() is a choice: any due subset can be selected.*)
(***************************************************************************)
MaxRetryCount == 5

InitRetry ==
    /\ hist = [queue |-> [m \in Mints |-> Absent], pc |-> "select", tokens |-> {},
               attempts |-> [m \in Mints |-> 0]]
    /\ anubis_token_launches = <<>>
    /\ wallet_profiles = <<>>
    /\ ScoreIdle /\ MonitorIdle /\ AlertIdle

\* INSERT ... VALUES ($1, 0, ...) ON CONFLICT (mint_address) DO NOTHING
queue_for_retry(queue, m) ==
    IF queue[m].present THEN queue
    ELSE [queue EXCEPT ![m] = [present |-> TRUE, retry_count |-> 0]]

\* WHERE ... AND retry_count < 5, without the bound
selectable_unbounded(row) == row.present

\* WHERE next_retry < NOW() AND retry_count < 5 (for a row that is due)
selectable(row) == row.present /\ row.retry_count < MaxRetryCount

\* fetch_token_metadata called for a mint outside the retry task, with no symbol
\* found: the mint is queued unless it already is.
fetch_token_metadata(m) ==
    /\ hist' = [hist EXCEPT !.queue = queue_for_retry(hist.queue, m)]
    /\ UNCHANGED <<anubis_token_launches, wallet_profiles, scoreVars, monVars, alertVars>>

\* The SELECT of retry_metadata_fetches.
select_retry_tokens ==
    /\ hist.pc = "select"
    /\ \E tokens \in SUBSET {m \in Mints : selectable(hist.queue[m])} :
         hist' = [hist EXCEPT !.pc = "loop", !.tokens = tokens]
    /\ UNCHANGED <<anubis_token_launches, wallet_profiles, scoreVars, monVars, alertVars>>

\* One iteration of `for token in tokens`: the metadata is found and the row
\* deleted, or it is not (fetch_token_metadata's INSERT changes nothing) and
\* retry_count grows by one.
retry_token(m) ==
    /\ hist.pc = "loop"
    /\ m \in hist.tokens
    /\ \/ hist' = [hist EXCEPT !.tokens = @ \ {m},
                               !.queue[m] = Absent,
                               !.attempts[m] = 0]
       \/ LET queue == queue_for_retry(hist.queue, m)
          IN  hist' = [hist EXCEPT !.tokens = @ \ {m},
                                   !.queue[m] = [queue[m] EXCEPT !.retry_count = @ + 1],
                                   !.attempts[m] = @ + 1]
    /\ UNCHANGED <<anubis_token_launches, wallet_profiles, scoreVars, monVars, alertVars>>

\* The loop is over; after sleep(60) the task selects again.
retry_pass_ends ==
    /\ hist.pc = "loop"
    /\ hist.tokens = {}
    /\ hist' = [hist EXCEPT !.pc = "select"]
    /\ UNCHANGED <<anubis_token_launches, wallet_profiles, scoreVars, monVars, alertVars>>

NextRetry ==
    \/ \E m \in Mints : fetch_token_metadata(m)
    \/ select_retry_tokens
    \/ \E m \in Mints : retry_token(m)
    \/ retry_pass_ends

SpecRetry == InitRetry /\ [][NextRetry]_vars

MaxTotalLaunches == 4

InitIngest ==
    /\ anubis_token_launches = [m \in Mints |-> Absent]
    /\ wallet_profiles = [w \in Wallets |-> Absent]
    /\ hist = <<>>
    /\ ScoreIdle /\ MonitorIdle /\ AlertIdle

\* The loop of _store_historical_results over results[i..].
RECURSIVE store_results(_, _, _, _)
store_results(rows, results, i, platform) ==
    IF i > Len(results) THEN rows
    ELSE LET launch == results[i]
             row == rows[launch.mint_address]
             stored == [rows EXCEPT ![launch.mint_address] =
                          IF row.present
                          THEN [row EXCEPT !.platform = platform,
                                           !.created_at = launch.launch_time]
                          ELSE [present |-> TRUE, creator |-> launch.creator_wallet,
                                platform |-> platform, created_at |-> launch.launch_time]]
         IN  store_results(stored, results, i + 1, platform)

\* _update_developer_profiles(launches): per creator, INSERT total_launches =
\* len(wallet_launches) ON CONFLICT DO UPDATE SET total_launches = total_launches + it.
profiles_updated(profiles, launches) ==
    [w \in Wallets |->
        LET total_launches == Cardinality(LaunchesOf(launches, w))
        IN  IF total_launches = 0 THEN profiles[w]
            ELSE IF profiles[w].present
            THEN [profiles[w] EXCEPT !.total_launches = @ + total_launches]
            ELSE [present |-> TRUE, total_launches |-> total_launches]]

\* One platform of a historical scan, whatever the scan's date range found.
scan_platform(p, results) ==
    /\ anubis_token_launches' = store_results(anubis_token_launches, results, 1, Platforms[p])
    /\ wallet_profiles' = profiles_updated(wallet_profiles, results)
    /\ \A w \in Wallets :
         wallet_profiles'[w].present => wallet_profiles'[w].total_launches <= MaxTotalLaunches
    /\ UNCHANGED <<hist, scoreVars, monVars, alertVars>>

\* _store_realtime_launch: INSERT INTO anubis.token_launches ... ON CONFLICT
\* (mint_address) DO NOTHING; wallet_profiles is not written.
store_realtime_launch(launch, platform) ==
    /\ anubis_token_launches' =
         IF anubis_token_launches[launch.mint_address].present
         THEN anubis_token_launches
         ELSE [anubis_token_launches EXCEPT ![launch.mint_address] =
                 [present |-> TRUE, creator |-> launch.creator_wallet,
                  platform |-> platform, created_at |-> launch.launch_time]]
    /\ UNCHANGED <<wallet_profiles, hist, scoreVars, monVars, alertVars>>

NextIngest ==
    \/ \E p \in DOMAIN Platforms, results \in ResultLists : scan_platform(p, results)
    \/ \E launch \in Launches, p \in DOMAIN Platforms :
          store_realtime_launch(launch, Platforms[p])

SpecIngest == InitIngest /\ [][NextIngest]_vars

(***************************************************************************)
(* C28 (SpecIngest): after any sequence of historical scans and realtime   *)
(* ingestions, each wallet's total_launches equals the number of distinct  *)
(* launch rows stored with that wallet as creator.                         *)
(***************************************************************************)
StoredFor(w) ==
    {m \in Mints : anubis_token_launches[m].present /\ anubis_token_launches[m].creator = w}

TotalLaunches(w) ==
    IF wallet_profiles[w].present THEN wallet_profiles[w].total_launches ELSE 0

C28_TotalLaunchesIsRowCount ==
    \A w \in Wallets : TotalLaunches(w) = Cardinality(StoredFor(w))

(***************************************************************************)
(* SpecPaths: one launch transaction at a time on each ingestion path of   *)
(* WalletScanner: the polling scan (scan_pump_historical), the historical  *)
(* scan (_parse_launch_transaction, _store_historical_results,             *)
(* _update_developer_profiles) and the realtime websocket                  *)
(* (_process_realtime_launch).  The input is the transaction's accountKeys *)
(* (possibly empty) and, for the two parsing paths, the mint of its        *)
(* initializeMint instruction.  The definition of anubis.token_launches is *)
(* not part of the program: whether it stores a NULL creator is a choice.  *)
(* wallet_profiles keeps only which profiles exist; hist holds the wallets *)
(* scored and the wallets an alert pass was run for.                       *)
(***************************************************************************)
NoCreator == "null"
Unknown == "UNKNOWN"
Creators == Wallets \cup {NoCreator, Unknown}

AccountKeys ==
    {<<>>} \cup {<<w>> : w \in Wallets} \cup {<<w, m>> : w \in Wallets, m \in Mints}

InitPaths ==
    /\ anubis_token_launches = [m \in Mints |-> Absent]
    /\ wallet_profiles = [c \in Creators |-> Absent]
    /\ hist = [scored |-> {}, passes |-> {}]
    /\ ScoreIdle /\ MonitorIdle /\ AlertIdle

\* INSERT INTO anubis.token_launches ... ON CONFLICT (mint_address) DO NOTHING
inserted(rows, mint, creator, platform) ==
    IF rows[mint].present THEN rows
    ELSE [rows EXCEPT ![mint] = [present |-> TRUE, creator |-> creator, platform |-> platform]]

\* launch_info["creator_wallet"]: accountKeys[0]["pubkey"] if there are keys, else None.
creator_wallet(account_keys) ==
    IF account_keys # <<>> THEN account_keys[1] ELSE NoCreator

\* scan_pump_historical for a launch transaction: creator is accountKeys[0] or
\* 'UNKNOWN', the mint is looked for in accountKeys[1:4]; with a mint the row is
\* inserted and check_developer_profile runs, creating a profile when it can.
polling_launch(account_keys) ==
    LET creator == IF account_keys # <<>> THEN account_keys[1] ELSE Unknown
        mint == IF Len(account_keys) >= 2 THEN account_keys[2] ELSE NoMint
    IN  /\ IF mint = NoMint
           THEN UNCHANGED <<anubis_token_launches, wallet_profiles, hist>>
           ELSE /\ anubis_token_launches' =
                     inserted(anubis_token_launches, mint, creator, "pump_fun")
                /\ hist' = [hist EXCEPT !.passes = @ \cup {creator}]
                /\ \E created \in BOOLEAN :
                     wallet_profiles' =
                       IF created THEN [wallet_profiles EXCEPT ![creator] = [present |-> TRUE]]
                       ELSE wallet_profiles
        /\ UNCHANGED <<scoreVars, monVars, alertVars>>

\* One launch of a historical scan: _parse_launch_transaction returns it also
\* without a creator; _store_historical_results upserts the row (a refused
\* INSERT is caught and the launch skipped) and scores a creator that is set;
\* _update_developer_profiles skips a launch without creator.
historical_launch(account_keys, mint, accepted) ==
    LET creator == creator_wallet(account_keys)
        stored == creator # NoCreator \/ accepted
        row == anubis_token_launches[mint]
    IN  /\ anubis_token_launches' =
             IF ~stored THEN anubis_token_launches
             ELSE IF row.present
             THEN [anubis_token_launches EXCEPT ![mint].platform = "pump_fun"]
             ELSE inserted(anubis_token_launches, mint, creator, "pump_fun")
        /\ hist' = [hist EXCEPT !.scored = IF stored /\ creator # NoCreator
                                           THEN @ \cup {creator} ELSE @]
        /\ wallet_profiles' =
             IF creator # NoCreator
             THEN [wallet_profiles EXCEPT ![creator] = [present |-> TRUE]]
             ELSE wallet_profiles
        /\ UNCHANGED <<scoreVars, monVars, alertVars>>

\* _process_realtime_launch: the parsed launch is stored by
\* _store_realtime_launch and alert_system.process_new_launch is called with
\* its creator_wallet; a refused INSERT raises and ends the handler.
realtime_launch(account_keys, mint, accepted) ==
    LET creator == creator_wallet(account_keys)
        stored == creator # NoCreator \/ accepted
    IN  /\ anubis_token_launches' =
             IF stored THEN inserted(anubis_token_launches, mint, creator, "realtime")
             ELSE anubis_token_launches
        /\ hist' = IF stored
                   THEN [hist EXCEPT !.scored = @ \cup {creator}, !.passes = @ \cup {creator}]
                   ELSE hist
        /\ UNCHANGED <<wallet_profiles, scoreVars, monVars, alertVars>>

NextPaths ==
    \/ \E account_keys \in AccountKeys : polling_launch(account_keys)
    \/ \E account_keys \in AccountKeys, mint \in Mints, accepted \in BOOLEAN :
          historical_launch(account_keys, mint, accepted)
    \/ \E account_keys \in AccountKeys, mint \in Mints, accepted \in BOOLEAN :
          realtime_launch(account_keys, mint, accepted)

SpecPaths == InitPaths /\ [][NextPaths]_vars

(***************************************************************************)
(* C21 (SpecPaths): on every ingestion path a launch whose creator cannot  *)
(* be determined writes no token_launches row, creates or updates no       *)
(* profile and gets no alert pass.                                         *)
(***************************************************************************)
Undetermined == {NoCreator, Unknown}

C21_NoCreatorRejected ==
    /\ \A m \in Mints :
         anubis_token_launches[m].present => anubis_token_launches[m].creator \notin Undetermined
    /\ \A c \in Undetermined : ~wallet_profiles[c].present
    /\ hist.passes \cap Undetermined = {}

====
